---- MODULE Spec2Model ----
(***************************************************************************)
(* Model of Attempt4_Solution.cpp: for each base N > 2, P(N) is the        *)
(* smallest integer exceeding 2N that is palindromic in base N and in      *)
(* base 2.  The program generates the base-N palindromes by additions      *)
(* (Increment / PairedOps / Generator), tests each with a stateful binary  *)
(* palindrome detector (IsBinaryPalindrome), and main() reports the        *)
(* running maxima of P(N).                                                 *)
(***************************************************************************)
EXTENDS Integers, Sequences, FiniteSets, TLC

VARIABLES
  N,         \* main / calc_Pn: the base under examination
  L,         \* calc_Pn: the loop variable L (number of digits)
  p,         \* calc_Pn: the palindrome register (Number_t p)
  g,         \* calc_Pn: the Generator g of the current loop iteration
  det,       \* the IsBinaryPalindrome instance (_msb, _mask)
  pc,        \* position of the thread of control
  pn,        \* value returned by calc_Pn (main's local pn)
  max_pn,    \* main: largest P(N) reported so far
  out,       \* the lines written to stdout: <<N, P(N)>> records for the
             \* lines of main's loop, [text |-> ...] records for the overflow
             \* diagnostic and for the empty line main writes at its end
  pns,       \* history: every value calc_Pn returned to main, in order
  untested,  \* history: the register was changed by a step and not yet tested
  start,     \* history: register value when the current generator was built
  hist,      \* history: register values produced by the current generator
  probe,     \* history: argument of the last call (of the detector, of add_commas)
  res,       \* history: result of the last call
  mono,      \* history: the arguments given to the detector were non-decreasing
  called,    \* history: the detector has been called at least once
  width,     \* number of bits of Number_t in this run
  total,     \* history: the seed plus every addend added, without wrapping
  added,     \* history: the addend of the last addition made or refused
  cycles,    \* operation harness: number of times the operation completed
  heap,      \* the Operation objects on the free store (new / delete)
  pal,       \* Attempt2: the Palindromes object (_N, _n, _cur)
  maxodd,    \* detector harness: the largest odd argument so far (0: none)
  status     \* the exit status of the process (Running: it has not ended)

vars == <<N, L, p, g, det, pc, pn, max_pn, out, pns, untested, start, hist,
          probe, res, mono, called, width, total, added, cycles,
          heap, pal, maxodd, status>>

-----------------------------------------------------------------------------
(* Bounds of the model *)

\* number of bits of Number_t / Count_t in the model (uint64_t in the source)
Width == 16
\* a narrower Number_t, with which main meets an overflow before its target
SmallWidth == 13
\* operation harness: repeat counts 1..MaxRepeat, addends 1..MaxAdder
MaxRepeat == 3
MaxAdder == 2
\* operation harness: the operation is run for MaxCycles complete cycles
MaxCycles == 2
\* largest base given to calc_Pn on its own
MaxN == 100
\* main's target (one quadrillion in the source)
tgt_pn == 8000
\* the detector harness calls operator() with 0..MaxProbe (and a few values
\* at the top of the integer range)
MaxProbe == 70
\* bases and lengths of the generators run to completion
MaxGenN == 5
MaxGenL == 8
\* calc_Pn followed to its end: bases 3..MaxFairN, Number_t of TinyWidth or
\* Width bits
MaxFairN == 9
TinyWidth == 10
\* Attempt2: Palindromes::next is called until the length exceeds MaxPalLen
MaxPalLen == 6
\* add_commas is called with 0..MaxComma (and a few values around a million)
MaxComma == 1100

-----------------------------------------------------------------------------
(* Fixed-width unsigned arithmetic *)

ULLONG_MAX == 2^width - 1

\* a + b in Number_t (wraps)
AddW(a, b) == (a + b) % (ULLONG_MAX + 1)

\* mutant: the product is computed in an integer of half the width
MulW_HalfWidth(a, b) == (a * b) % 2^(width \div 2)

\* a * b in Number_t (unchecked, wraps)
MulW(a, b) == (a * b) % (ULLONG_MAX + 1)

\* x << 1 in Number_t
ShiftLeft(x) == (x * 2) % (ULLONG_MAX + 1)

\* x >> 1
ShiftRight(x) == x \div 2

RECURSIVE BitAnd(_, _)
BitAnd(a, b) ==
  IF a = 0 \/ b = 0 THEN 0
  ELSE (a % 2) * (b % 2) + 2 * BitAnd(a \div 2, b \div 2)

RECURSIVE BitOr(_, _)
BitOr(a, b) ==
  IF a = 0 THEN b
  ELSE IF b = 0 THEN a
  ELSE (IF a % 2 = 1 \/ b % 2 = 1 THEN 1 ELSE 0) + 2 * BitOr(a \div 2, b \div 2)

-----------------------------------------------------------------------------
(* Operations: Increment and PairedOps.                                     *)
(* The operations of one Generator form a chain S0, S1, ..., Sk kept in the *)
(* list _S; the sub-operation _S of the PairedOps at position i of the list *)
(* is the operation at position i-1.  An operation is a record              *)
(*   kind    "Increment" or "PairedOps"                                     *)
(*   adder   Increment::_adder (0 for a PairedOps)                          *)
(*   I       PairedOps::_I     (0 for an Increment)                         *)
(*   repeat  _repeat                                                        *)
(*   counter _counter                                                       *)
(*   on_S    PairedOps::_on_S  (TRUE for an Increment)                      *)
(* A step returns [S, p, ret, exit, added]: the list and the register after *)
(* the call, the value returned, whether the call ended in exit(1), and the *)
(* addend of the addition the call made (or refused, when it ended in exit).*)
(* A call that ended in exit(1) has two more fields: cout, the line it      *)
(* wrote to std::cout before exit, and status, the argument of exit.        *)

Increment(n, adder) ==
  [kind |-> "Increment", adder |-> adder, I |-> 0, repeat |-> n,
   counter |-> 0, on_S |-> TRUE]

PairedOps(n, I) ==
  [kind |-> "PairedOps", adder |-> 0, I |-> I, repeat |-> n,
   counter |-> 0, on_S |-> TRUE]

\* the value of status as long as the process has not ended
Running == -1

\* mutant: "return true" in place of "exit(1)"
Exit_ReturnTrue(S, palindrome, addend) ==
  [S |-> S, p |-> palindrome, ret |-> TRUE, exit |-> FALSE, added |-> 0]

\* mutant: an empty line is written and the status is 0
Exit_Quiet(S, palindrome, addend) ==
  [S |-> S, p |-> palindrome, ret |-> TRUE, exit |-> TRUE, added |-> addend,
   cout |-> "", status |-> 0]

\* std::cout << "64bit is insufficient" << std::endl; exit(1);
\* the failing call modifies neither the register nor the operations
Exit(S, palindrome, addend) ==
  [S |-> S, p |-> palindrome, ret |-> TRUE, exit |-> TRUE, added |-> addend,
   cout |-> "64bit is insufficient", status |-> 1]

\* mutant: no overflow check before the addition
Increment_step_NoCheck(S, i, palindrome) ==
  LET op == S[i] IN
  IF op.counter + 1 = op.repeat
  THEN [S |-> [S EXCEPT ![i].counter = 0],
        p |-> AddW(palindrome, op.adder), ret |-> FALSE, exit |-> FALSE,
        added |-> op.adder]
  ELSE [S |-> [S EXCEPT ![i].counter = op.counter + 1],
        p |-> AddW(palindrome, op.adder), ret |-> TRUE, exit |-> FALSE,
        added |-> op.adder]

\* mutant: the counter is incremented before the overflow check
Increment_step_CountBeforeCheck(S, i, palindrome) ==
  LET op == S[i] IN
  IF palindrome > ULLONG_MAX - op.adder
  THEN Exit([S EXCEPT ![i].counter = op.counter + 1], palindrome, op.adder)
  ELSE IF op.counter + 1 = op.repeat
       THEN [S |-> [S EXCEPT ![i].counter = 0],
             p |-> AddW(palindrome, op.adder), ret |-> FALSE, exit |-> FALSE,
             added |-> op.adder]
       ELSE [S |-> [S EXCEPT ![i].counter = op.counter + 1],
             p |-> AddW(palindrome, op.adder), ret |-> TRUE, exit |-> FALSE,
             added |-> op.adder]

\* mutant: the counter is not reset on completion
Increment_step_NoReset(S, i, palindrome) ==
  LET op == S[i] IN
  IF palindrome > ULLONG_MAX - op.adder
  THEN Exit(S, palindrome, op.adder)
  ELSE [S |-> [S EXCEPT ![i].counter = op.counter + 1],
        p |-> AddW(palindrome, op.adder),
        ret |-> (op.counter + 1 # op.repeat), exit |-> FALSE,
        added |-> op.adder]

Increment_step(S, i, palindrome) ==
  LET op == S[i] IN
  IF palindrome > ULLONG_MAX - op.adder
  THEN Exit(S, palindrome, op.adder)
  ELSE IF op.counter + 1 = op.repeat
       THEN [S |-> [S EXCEPT ![i].counter = 0],
             p |-> AddW(palindrome, op.adder), ret |-> FALSE, exit |-> FALSE,
             added |-> op.adder]
       ELSE [S |-> [S EXCEPT ![i].counter = op.counter + 1],
             p |-> AddW(palindrome, op.adder), ret |-> TRUE, exit |-> FALSE,
             added |-> op.adder]

RECURSIVE Operation_step(_, _, _)

\* mutant: "_counter <= _repeat", one [S,I] pair too many
PairedOps_step_OffByOne(S, i, palindrome) ==
  LET op == S[i] IN
  IF op.counter <= op.repeat
  THEN IF op.on_S
       THEN LET r == Operation_step(S, i - 1, palindrome) IN
            IF r.exit THEN r
            ELSE IF ~r.ret
                 THEN [r EXCEPT !.S[i].on_S = FALSE, !.ret = TRUE]
                 ELSE [r EXCEPT !.ret = TRUE]
       ELSE IF palindrome > ULLONG_MAX - op.I
            THEN Exit(S, palindrome, op.I)
            ELSE [S |-> [S EXCEPT ![i].counter = op.counter + 1,
                                  ![i].on_S = TRUE],
                  p |-> AddW(palindrome, op.I), ret |-> TRUE, exit |-> FALSE,
                  added |-> op.I]
  ELSE LET r == Operation_step(S, i - 1, palindrome) IN
       IF r.exit THEN r
       ELSE IF ~r.ret
            THEN [r EXCEPT !.S[i].counter = 0, !.S[i].on_S = TRUE,
                           !.ret = FALSE]
            ELSE [r EXCEPT !.ret = TRUE]

\* mutant: "_counter = 0" is missing on completion
PairedOps_step_NoCounterReset(S, i, palindrome) ==
  LET op == S[i] IN
  IF op.counter < op.repeat
  THEN IF op.on_S
       THEN LET r == Operation_step(S, i - 1, palindrome) IN
            IF r.exit THEN r
            ELSE IF ~r.ret
                 THEN [r EXCEPT !.S[i].on_S = FALSE, !.ret = TRUE]
                 ELSE [r EXCEPT !.ret = TRUE]
       ELSE IF palindrome > ULLONG_MAX - op.I
            THEN Exit(S, palindrome, op.I)
            ELSE [S |-> [S EXCEPT ![i].counter = op.counter + 1,
                                  ![i].on_S = TRUE],
                  p |-> AddW(palindrome, op.I), ret |-> TRUE, exit |-> FALSE,
                  added |-> op.I]
  ELSE LET r == Operation_step(S, i - 1, palindrome) IN
       IF r.exit THEN r
       ELSE IF ~r.ret
            THEN [r EXCEPT !.S[i].on_S = TRUE, !.ret = FALSE]
            ELSE [r EXCEPT !.ret = TRUE]

PairedOps_step(S, i, palindrome) ==
  LET op == S[i] IN
  IF op.counter < op.repeat
  THEN IF op.on_S
       THEN LET r == Operation_step(S, i - 1, palindrome) IN
            IF r.exit THEN r
            ELSE IF ~r.ret
                 THEN [r EXCEPT !.S[i].on_S = FALSE, !.ret = TRUE]
                 ELSE [r EXCEPT !.ret = TRUE]
       ELSE IF palindrome > ULLONG_MAX - op.I
            THEN Exit(S, palindrome, op.I)
            ELSE [S |-> [S EXCEPT ![i].counter = op.counter + 1,
                                  ![i].on_S = TRUE],
                  p |-> AddW(palindrome, op.I), ret |-> TRUE, exit |-> FALSE,
                  added |-> op.I]
  ELSE LET r == Operation_step(S, i - 1, palindrome) IN
       IF r.exit THEN r
       ELSE IF ~r.ret
            THEN [r EXCEPT !.S[i].counter = 0, !.S[i].on_S = TRUE,
                           !.ret = FALSE]
            ELSE [r EXCEPT !.ret = TRUE]

\* virtual bool step(Number_t &palindrome): dispatch on the dynamic type
Operation_step(S, i, palindrome) ==
  IF S[i].kind = "Increment"
  THEN Increment_step(S, i, palindrome)
  ELSE PairedOps_step(S, i, palindrome)

-----------------------------------------------------------------------------
(* Generator: [done, S]; _seq is the last operation of the list _S.         *)

\* the two loops "for(i=0; i<k-1; ++i) { M *= N; I *= N; }"
RECURSIVE AddZeros(_, _, _)
AddZeros(x, base, n) ==
  IF n <= 0 THEN x ELSE AddZeros(MulW(x, base), base, n - 1)

\* mutant: "I /= N" is missing
RECURSIVE BuildSequence_NoDivide(_, _, _, _, _, _)
BuildSequence_NoDivide(S, I, i, k, m, base) ==
  IF i < k
  THEN BuildSequence_NoDivide(Append(S, PairedOps(m, I)), I, i + 1, k, m, base)
  ELSE [S |-> S, I |-> I]

\* "for(i=1; i<k; ++i) { Si = new PairedOps(m,Si,I); _S.push_back(Si); I /= N; }"
\* returns the list and the value of I after the loop
RECURSIVE BuildSequence(_, _, _, _, _, _)
BuildSequence(S, I, i, k, m, base) ==
  IF i < k
  THEN BuildSequence(Append(S, PairedOps(m, I)), I \div base, i + 1, k, m, base)
  ELSE [S |-> S, I |-> I]

\* mutant: for length 2 the Increment repeats q-1 = N-3 times
Generator_LengthTwoRepeatQm1(base, length) ==
  LET k   == (length + 1) \div 2 - 1
      odd == (length % 2 = 1)
      m   == base - 1
      q   == m - 1
  IN IF length = 2
     THEN [done |-> FALSE, S |-> << Increment(q - 1, base + 1) >>]
     ELSE LET M  == AddZeros(IF odd THEN base ELSE MulW(base, base + 1), base, k - 1)
              I  == AddZeros(base + 1, base, k - 1)
              b  == BuildSequence(<< Increment(m, M) >>, I, 1, k, m, base)
          IN [done |-> FALSE, S |-> Append(b.S, PairedOps(q, b.I))]

\* mutant: the last PairedOps repeats m times, like the inner ones
Generator_RootRepeatM(base, length) ==
  LET k   == (length + 1) \div 2 - 1
      odd == (length % 2 = 1)
      m   == base - 1
  IN IF length = 2
     THEN [done |-> FALSE, S |-> << Increment(m, base + 1) >>]
     ELSE LET M  == AddZeros(IF odd THEN base ELSE MulW(base, base + 1), base, k - 1)
              I  == AddZeros(base + 1, base, k - 1)
              b  == BuildSequence(<< Increment(m, M) >>, I, 1, k, m, base)
          IN [done |-> FALSE, S |-> Append(b.S, PairedOps(m, b.I))]

Generator(base, length) ==
  LET k   == (length + 1) \div 2 - 1
      odd == (length % 2 = 1)
      m   == base - 1
      q   == m - 1
  IN IF length = 2
     THEN [done |-> FALSE, S |-> << Increment(q, base + 1) >>]
     ELSE LET M  == AddZeros(IF odd THEN base ELSE MulW(base, base + 1), base, k - 1)
              I  == AddZeros(base + 1, base, k - 1)
              b  == BuildSequence(<< Increment(m, M) >>, I, 1, k, m, base)
          IN [done |-> FALSE, S |-> Append(b.S, PairedOps(q, b.I))]

\* mutant: the roll-over adds 1
Generator_step_RollOverByOne(gen, palindrome) ==
  IF gen.done
  THEN IF palindrome > ULLONG_MAX - 1
       THEN [g |-> gen, p |-> palindrome, ret |-> TRUE, exit |-> TRUE,
             added |-> 1, cout |-> "64bit is insufficient", status |-> 1]
       ELSE [g |-> [gen EXCEPT !.done = FALSE], p |-> AddW(palindrome, 1),
             ret |-> FALSE, exit |-> FALSE, added |-> 1]
  ELSE LET r == Operation_step(gen.S, Len(gen.S), palindrome) IN
       IF r.exit
       THEN [g |-> [gen EXCEPT !.S = r.S], p |-> r.p, ret |-> TRUE,
             exit |-> TRUE, added |-> r.added, cout |-> r.cout,
             status |-> r.status]
       ELSE [g |-> [done |-> ~r.ret, S |-> r.S], p |-> r.p,
             ret |-> TRUE, exit |-> FALSE, added |-> r.added]

\* mutant: the roll-over is made by the call that completes the sequence
Generator_step_RollOverWithLast(gen, palindrome) ==
  LET r == Operation_step(gen.S, Len(gen.S), palindrome) IN
  IF r.exit
  THEN [g |-> [gen EXCEPT !.S = r.S], p |-> r.p, ret |-> TRUE,
        exit |-> TRUE, added |-> r.added, cout |-> r.cout,
        status |-> r.status]
  ELSE IF r.ret
       THEN [g |-> [done |-> FALSE, S |-> r.S], p |-> r.p,
             ret |-> TRUE, exit |-> FALSE, added |-> r.added]
       ELSE IF r.p > ULLONG_MAX - 2
            THEN [g |-> [done |-> FALSE, S |-> r.S], p |-> r.p, ret |-> TRUE,
                  exit |-> TRUE, added |-> 2,
                  cout |-> "64bit is insufficient", status |-> 1]
            ELSE [g |-> [done |-> FALSE, S |-> r.S], p |-> AddW(r.p, 2),
                  ret |-> FALSE, exit |-> FALSE, added |-> r.added + 2]

\* returns [g, p, ret, exit, added], and cout and status with exit
Generator_step(gen, palindrome) ==
  IF gen.done
  THEN IF palindrome > ULLONG_MAX - 2
       THEN [g |-> gen, p |-> palindrome, ret |-> TRUE, exit |-> TRUE,
             added |-> 2, cout |-> "64bit is insufficient", status |-> 1]
       ELSE [g |-> [gen EXCEPT !.done = FALSE], p |-> AddW(palindrome, 2),
             ret |-> FALSE, exit |-> FALSE, added |-> 2]
  ELSE LET r == Operation_step(gen.S, Len(gen.S), palindrome) IN
       IF r.exit
       THEN [g |-> [gen EXCEPT !.S = r.S], p |-> r.p, ret |-> TRUE,
             exit |-> TRUE, added |-> r.added, cout |-> r.cout,
             status |-> r.status]
       ELSE [g |-> [done |-> ~r.ret, S |-> r.S], p |-> r.p,
             ret |-> TRUE, exit |-> FALSE, added |-> r.added]

\* no generator constructed yet
NoGenerator == [done |-> FALSE, S |-> << >>]

-----------------------------------------------------------------------------
(* The Operation objects of a Generator on the free store.  Objects are     *)
(* named by numbers 1, 2, ... in the order of their creation (0: no object).*)
(*   next   the name the next object created will have                      *)
(*   sub    for every object that exists, the object its _S member points   *)
(*          to (0 for an Increment, which has no such member)               *)
(*   list   Generator::_S, the vector of pointers; list[i] is the object    *)
(*          whose members are g.S[i]                                        *)
(*   freed  the objects passed to delete, in order                          *)

EmptyHeap == [next |-> 1, sub |-> << >>, list |-> << >>, freed |-> << >>]

\* "Si = new ...(.., S, ..); _S.push_back(Si);"
New(h, S) ==
  [h EXCEPT !.next = @ + 1,
            !.sub  = @ @@ (h.next :> S),
            !.list = Append(@, h.next)]

\* the n PairedOps of a constructor, each over the object created before it
RECURSIVE NewPaired(_, _)
NewPaired(h, n) ==
  IF n <= 0 THEN h ELSE NewPaired(New(h, h.list[Len(h.list)]), n - 1)

\* the objects Generator(N, length) creates: the loop creates k-1 PairedOps
\* and the root is one more
Generator_new(h, length) ==
  LET k == (length + 1) \div 2 - 1
  IN IF length = 2 THEN New(h, 0) ELSE NewPaired(New(h, 0), k)

\* "delete *op": Operation has no destructor body, nothing else is released
Delete(h, id) ==
  [h EXCEPT !.sub   = [x \in (DOMAIN h.sub) \ {id} |-> h.sub[x]],
            !.freed = Append(@, id)]

RECURSIVE DeleteFrom(_, _)
DeleteFrom(h, i) ==
  IF i > Len(h.list) THEN h ELSE DeleteFrom(Delete(h, h.list[i]), i + 1)

\* mutant: the destructor releases _seq only
Generator_delete_SeqOnly(h) ==
  [Delete(h, h.list[Len(h.list)]) EXCEPT !.list = << >>]

\* ~Generator(): "for(op = _S.begin(); op != _S.end(); ++op) { delete *op; }"
Generator_delete(h) ==
  [DeleteFrom(h, 1) EXCEPT !.list = << >>]

-----------------------------------------------------------------------------
(* IsBinaryPalindrome: [msb, mask] *)

IsBinaryPalindrome == [msb |-> 1, mask |-> ULLONG_MAX - 1]

\* mutant: the marker is never moved
GrowMsb_Never(d, x) == d

\* mutant: "if" in place of "while", the marker moves by one bit at most
GrowMsb_Once(d, x) ==
  IF BitAnd(x, d.mask) # 0
  THEN [msb |-> ShiftLeft(d.msb), mask |-> ShiftLeft(d.mask)]
  ELSE d

\* mutant: the marker is searched from bit 0 at every call
RECURSIVE GrowMsb_Loop(_, _)
GrowMsb_Loop(d, x) ==
  IF BitAnd(x, d.mask) # 0
  THEN GrowMsb_Loop([msb |-> ShiftLeft(d.msb), mask |-> ShiftLeft(d.mask)], x)
  ELSE d

GrowMsb_FromScratch(d, x) == GrowMsb_Loop(IsBinaryPalindrome, x)

\* "while(p & _mask) { _mask <<= 1; _msb <<= 1; }"
RECURSIVE GrowMsb(_, _)
GrowMsb(d, x) ==
  IF BitAnd(x, d.mask) # 0
  THEN GrowMsb([msb |-> ShiftLeft(d.msb), mask |-> ShiftLeft(d.mask)], x)
  ELSE d

\* mutant: the loop stops after the outermost pair of bits
ComparePairs_OuterOnly(x, a, b) ==
  IF a > b
  THEN LET t == BitOr(a, b)
           q == BitAnd(x, t)
       IN q = 0 \/ q = t
  ELSE TRUE

\* "while(a>b) { ... }": compare the bit pairs from (msb, 1) inward
RECURSIVE ComparePairs(_, _, _)
ComparePairs(x, a, b) ==
  IF a > b
  THEN LET t == BitOr(a, b)
           q == BitAnd(x, t)
       IN IF q = 0 \/ q = t
          THEN ComparePairs(x, ShiftRight(a), ShiftLeft(b))
          ELSE FALSE
  ELSE TRUE

\* mutant: no test for an even argument
IsBinaryPalindrome_call_NoEvenCheck(d, x) ==
  LET d2 == GrowMsb(d, x)
  IN [det |-> d2, result |-> ComparePairs(x, d2.msb, 1)]

\* bool operator()(Number_t p): returns [det, result]
IsBinaryPalindrome_call(d, x) ==
  IF x % 2 = 0
  THEN [det |-> d, result |-> FALSE]
  ELSE LET d2 == GrowMsb(d, x)
       IN [det |-> d2, result |-> ComparePairs(x, d2.msb, 1)]

-----------------------------------------------------------------------------
(* add_commas: a string is a sequence of one-character strings              *)

DigitChar(d) == << "0", "1", "2", "3", "4", "5", "6", "7", "8", "9" >>[d + 1]

\* "rval << n" for an unsigned integer
RECURSIVE DecimalString(_)
DecimalString(n) ==
  IF n < 10 THEN << DigitChar(n) >>
  ELSE Append(DecimalString(n \div 10), DigitChar(n % 10))

\* "std::setw(3) << std::setfill('0') << *bi"
Pad3(b) ==
  LET t == DecimalString(b)
  IN [i \in 1 .. (3 - Len(t)) |-> "0"] \o t

\* "while(n > 1000) { blocks.push_back(n%1000); n /= 1000; }"
\* returns n after the loop and the vector blocks
RECURSIVE add_commas_blocks(_, _)
add_commas_blocks(n, blocks) ==
  IF n > 1000
  THEN add_commas_blocks(n \div 1000, Append(blocks, n % 1000))
  ELSE [n |-> n, blocks |-> blocks]

\* the for loop over blocks.rbegin() .. blocks.rend(), i blocks left to write
RECURSIVE add_commas_write(_, _, _)
add_commas_write(rval, blocks, i) ==
  IF i = 0 THEN rval
  ELSE add_commas_write(rval \o << "," >> \o Pad3(blocks[i]), blocks, i - 1)

add_commas(n) ==
  LET r == add_commas_blocks(n, << >>)
  IN add_commas_write(DecimalString(r.n), r.blocks, Len(r.blocks))

-----------------------------------------------------------------------------
(* Attempt2.cpp, class Palindromes: [N, n, cur]; cur is the vector _cur,    *)
(* cur[i+1] being _cur[i].                                                  *)

\* no Palindromes object
NoPalindromes == [N |-> 0, n |-> 0, cur |-> << >>]

\* Palindromes(Digit_t base) : _N(base), _n(2), _cur({1,1})
Palindromes(base) == [N |-> base, n |-> 2, cur |-> << 1, 1 >>]

\* mutant: the mirror digit is not cleared on a carry
RECURSIVE Palindromes_carry_KeepMirror(_, _, _)
Palindromes_carry_KeepMirror(P, a, b) ==
  IF a < P.n
  THEN IF P.cur[a + 1] < P.N - 1
       THEN [P |-> [P EXCEPT !.cur = [@ EXCEPT ![a + 1] = 1 + P.cur[a + 1],
                                               ![b + 1] = 1 + P.cur[a + 1]]],
             a |-> a]
       ELSE Palindromes_carry_KeepMirror(
              [P EXCEPT !.cur = [@ EXCEPT ![a + 1] = 0]],
              a + 1, b - 1)
  ELSE [P |-> P, a |-> a]

\* "while( a < _n ) { if( _cur[a] < _N-1 ) {...; break;} else {...} }"
\* returns the object and the value of a after the loop
RECURSIVE Palindromes_carry(_, _, _)
Palindromes_carry(P, a, b) ==
  IF a < P.n
  THEN IF P.cur[a + 1] < P.N - 1
       THEN [P |-> [P EXCEPT !.cur = [@ EXCEPT ![a + 1] = 1 + P.cur[a + 1],
                                               ![b + 1] = 1 + P.cur[a + 1]]],
             a |-> a]
       ELSE Palindromes_carry(
              [P EXCEPT !.cur = [@ EXCEPT ![a + 1] = 0, ![b + 1] = 0]],
              a + 1, b - 1)
  ELSE [P |-> P, a |-> a]

\* const Number_t &next(): the object after the call; _cur is the result
Palindromes_next(P) ==
  LET r == Palindromes_carry(P, P.n \div 2, (P.n - 1) \div 2)
  IN IF r.a = P.n
     THEN [N |-> P.N, n |-> P.n + 1,
           cur |-> [i \in 1 .. (P.n + 1) |->
                      IF i = 1 \/ i = P.n + 1 THEN 1 ELSE 0]]
     ELSE r.P

-----------------------------------------------------------------------------
(* calc_Pn: positions                                                       *)
(*   "gen"   at the top of the for loop body, about to construct g(N,L)     *)
(*   "step"  at the while condition, about to call g.step(p)                *)
(*   "test"  in the while body, about to call is_binary_palindrome(p)       *)
(*   "ret"   calc_Pn has returned pn                                        *)
(*   "exit"  the process has ended in exit(1), after writing the line       *)
(*           "64bit is insufficient" to std::cout                           *)

\* mutant: the detector is a static object, kept from call to call
calc_Pn_enter_KeepDetector(base) ==
  /\ N' = base
  /\ det' = det
  /\ p' = base + 1
  /\ L' = 2
  /\ g' = NoGenerator
  /\ untested' = FALSE
  /\ total' = base + 1
  /\ added' = 0
  /\ called' = FALSE
  /\ mono' = TRUE
  /\ pc' = "gen"

\* entry of calc_Pn(base): a new detector and the register N+1
calc_Pn_enter(base) ==
  /\ N' = base
  /\ det' = IsBinaryPalindrome
  /\ p' = base + 1
  /\ L' = 2
  /\ g' = NoGenerator
  /\ untested' = FALSE
  /\ total' = base + 1
  /\ added' = 0
  /\ called' = FALSE
  /\ mono' = TRUE
  /\ pc' = "gen"

\* Generator g(N,L);
CalcNewGen ==
  /\ pc = "gen"
  /\ g' = Generator(N, L)
  /\ heap' = Generator_new(heap, L)
  /\ pc' = "step"
  /\ UNCHANGED <<N, L, p, det, pn, max_pn, out, pns, untested, start, hist,
                 probe, res, mono, called, width, total, added, cycles,
                 pal, maxodd, status>>

\* mutant: the register is declared inside the for loop, every length starts
\* from N+1
CalcStep_ReseedRegister ==
  /\ pc = "step"
  /\ LET r == Generator_step(g, p) IN
       /\ added' = r.added
       /\ IF r.exit
          THEN /\ pc' = "exit"
               /\ out' = Append(out, [text |-> r.cout])
               /\ status' = r.status
               /\ g' = r.g
               /\ p' = r.p
               /\ UNCHANGED <<L, untested, total, heap>>
          ELSE /\ untested' = TRUE
               /\ total' = total + r.added
               /\ UNCHANGED <<out, status>>
               /\ IF r.ret
                  THEN /\ g' = r.g
                       /\ p' = r.p
                       /\ pc' = "test"
                       /\ L' = L
                       /\ heap' = heap
                  ELSE /\ g' = NoGenerator
                       /\ p' = N + 1
                       /\ pc' = "gen"
                       /\ L' = L + 1
                       /\ heap' = Generator_delete(heap)
  /\ UNCHANGED <<N, det, pn, max_pn, pns, start, hist,
                 probe, res, mono, called, width, cycles,
                 pal, maxodd>>

\* while( g.step(p) ): a false result ends the while loop, destroys g and
\* starts the next iteration of the for loop (++L)
CalcStep ==
  /\ pc = "step"
  /\ LET r == Generator_step(g, p) IN
       /\ p' = r.p
       /\ added' = r.added
       /\ IF r.exit
          THEN /\ pc' = "exit"
               /\ out' = Append(out, [text |-> r.cout])
               /\ status' = r.status
               /\ g' = r.g
               /\ UNCHANGED <<L, untested, total, heap>>
          ELSE /\ untested' = TRUE
               /\ total' = total + r.added
               /\ UNCHANGED <<out, status>>
               /\ IF r.ret
                  THEN /\ g' = r.g
                       /\ pc' = "test"
                       /\ L' = L
                       /\ heap' = heap
                  ELSE /\ g' = NoGenerator
                       /\ pc' = "gen"
                       /\ L' = L + 1
                       /\ heap' = Generator_delete(heap)
  /\ UNCHANGED <<N, det, pn, max_pn, pns, start, hist,
                 probe, res, mono, called, width, cycles,
                 pal, maxodd>>

\* if(is_binary_palindrome(p)) { return p; }   (the return destroys g)
CalcTest ==
  /\ pc = "test"
  /\ LET r == IsBinaryPalindrome_call(det, p) IN
       /\ det' = r.det
       /\ IF r.result
          THEN /\ pn' = p
               /\ pc' = "ret"
               /\ heap' = Generator_delete(heap)
          ELSE /\ pn' = pn
               /\ pc' = "step"
               /\ heap' = heap
       /\ res' = r.result
  /\ probe' = p
  /\ mono' = (mono /\ (called => probe <= p))
  /\ called' = TRUE
  /\ untested' = FALSE
  /\ UNCHANGED <<N, L, p, g, max_pn, out, pns, start, hist,
                 width, total, added, cycles,
                 pal, maxodd, status>>

-----------------------------------------------------------------------------
(* main: positions                                                          *)
(*   "main"  at the for loop condition N < tgt_pn                           *)
(*   "ret"   calc_Pn(N) has returned, about to compare pn with max_pn       *)
(*   "done"  after the loop, about to write the empty line                  *)
(*   "end"   main has returned 0                                            *)

\* for(...; N<tgt_pn; ...) { Number_t pn = calc_Pn(N);
MainLoop ==
  /\ pc = "main"
  /\ IF N < tgt_pn
     THEN calc_Pn_enter(N)
     ELSE /\ pc' = "done"
          /\ UNCHANGED <<N, L, p, g, det, untested, total, added, called, mono>>
  /\ UNCHANGED <<pn, max_pn, out, pns, start, hist, probe, res,
                 width, cycles,
                 heap, pal, maxodd, status>>

\* mutant: "max_pn = pn" is missing
MainReport_NoMaxUpdate ==
  /\ pc = "ret"
  /\ pns' = Append(pns, pn)
  /\ max_pn' = max_pn
  /\ IF pn > max_pn
     THEN /\ out' = Append(out, [N |-> N, pn |-> pn])
          /\ IF pn >= tgt_pn
             THEN /\ pc' = "done"
                  /\ N' = N
             ELSE /\ pc' = "main"
                  /\ N' = N + 1
     ELSE /\ out' = out
          /\ pc' = "main"
          /\ N' = N + 1
  /\ UNCHANGED <<L, p, g, det, pn, untested, start, hist,
                 probe, res, mono, called, width, total, added, cycles,
                 heap, pal, maxodd, status>>

\* mutant: "max_pn = pn" is outside the if, max_pn is the last P(N)
MainReport_LastNotMax ==
  /\ pc = "ret"
  /\ pns' = Append(pns, pn)
  /\ max_pn' = pn
  /\ IF pn > max_pn
     THEN /\ out' = Append(out, [N |-> N, pn |-> pn])
          /\ IF pn >= tgt_pn
             THEN /\ pc' = "done"
                  /\ N' = N
             ELSE /\ pc' = "main"
                  /\ N' = N + 1
     ELSE /\ out' = out
          /\ pc' = "main"
          /\ N' = N + 1
  /\ UNCHANGED <<L, p, g, det, pn, untested, start, hist,
                 probe, res, mono, called, width, total, added, cycles,
                 heap, pal, maxodd, status>>

\* mutant: the break is missing
MainReport_NoBreak ==
  /\ pc = "ret"
  /\ pns' = Append(pns, pn)
  /\ IF pn > max_pn
     THEN /\ out' = Append(out, [N |-> N, pn |-> pn])
          /\ max_pn' = pn
     ELSE /\ out' = out
          /\ max_pn' = max_pn
  /\ pc' = "main"
  /\ N' = N + 1
  /\ UNCHANGED <<L, p, g, det, pn, untested, start, hist,
                 probe, res, mono, called, width, total, added, cycles,
                 heap, pal, maxodd, status>>

\* if(pn > max_pn) { std::cout << ...; max_pn = pn; if(pn >= tgt_pn) break; }  ++N
MainReport ==
  /\ pc = "ret"
  /\ pns' = Append(pns, pn)
  /\ IF pn > max_pn
     THEN /\ out' = Append(out, [N |-> N, pn |-> pn])
          /\ max_pn' = pn
          /\ IF pn >= tgt_pn
             THEN /\ pc' = "done"
                  /\ N' = N
             ELSE /\ pc' = "main"
                  /\ N' = N + 1
     ELSE /\ out' = out
          /\ max_pn' = max_pn
          /\ pc' = "main"
          /\ N' = N + 1
  /\ UNCHANGED <<L, p, g, det, pn, untested, start, hist,
                 probe, res, mono, called, width, total, added, cycles,
                 heap, pal, maxodd, status>>

\* after the loop:  std::cout << std::endl;  return 0;
MainReturn ==
  /\ pc = "done"
  /\ out' = Append(out, [text |-> ""])
  /\ status' = 0
  /\ pc' = "end"
  /\ UNCHANGED <<N, L, p, g, det, pn, max_pn, pns, untested, start, hist,
                 probe, res, mono, called, width, total, added, cycles,
                 heap, pal, maxodd>>

-----------------------------------------------------------------------------
(* Generators run to completion: the loop of calc_Pn,                       *)
(*   for(L=2; ; ++L) { Generator g(N,L); while( g.step(p) ) ... }           *)
(* followed for the lengths 2 .. MaxGenL, recording the register after      *)
(* every call of g.step.  Positions "ggen", "gstep", "gend" (the generator  *)
(* has reported completion), "exit".                                        *)

GenNew ==
  /\ pc = "ggen"
  /\ L <= MaxGenL
  /\ g' = Generator(N, L)
  /\ heap' = Generator_new(heap, L)
  /\ start' = p
  /\ hist' = << >>
  /\ pc' = "gstep"
  /\ UNCHANGED <<N, L, p, det, pn, max_pn, out, pns, untested,
                 probe, res, mono, called, width, total, added, cycles,
                 pal, maxodd, status>>

GenStep ==
  /\ pc = "gstep"
  /\ LET r == Generator_step(g, p) IN
       /\ p' = r.p
       /\ g' = r.g
       /\ added' = r.added
       /\ IF r.exit
          THEN /\ pc' = "exit"
               /\ out' = Append(out, [text |-> r.cout])
               /\ status' = r.status
               /\ UNCHANGED <<hist, total>>
          ELSE /\ hist' = Append(hist, r.p)
               /\ total' = total + r.added
               /\ pc' = IF r.ret THEN "gstep" ELSE "gend"
               /\ UNCHANGED <<out, status>>
  /\ UNCHANGED <<N, L, det, pn, max_pn, pns, untested, start,
                 probe, res, mono, called, width, cycles,
                 heap, pal, maxodd>>

\* the generator is destroyed and the for loop increments L
GenNextLength ==
  /\ pc = "gend"
  /\ L' = L + 1
  /\ g' = NoGenerator
  /\ heap' = Generator_delete(heap)
  /\ pc' = "ggen"
  /\ UNCHANGED <<N, p, det, pn, max_pn, out, pns, untested, start, hist,
                 probe, res, mono, called, width, total, added, cycles,
                 pal, maxodd, status>>

-----------------------------------------------------------------------------
(* One operation stepped on its own: an Increment, a PairedOps over an      *)
(* Increment, or a PairedOps over a PairedOps over an Increment, called     *)
(*   while(true) op->step(p);                                               *)
(* for MaxCycles complete cycles.  Positions "ostep" (the last call         *)
(* returned true, or no call was made), "oend" (the last call returned      *)
(* false), "exit".  start is the register at the beginning of the current   *)
(* cycle and hist the register after each call of the current cycle.        *)

\* the operation lists of the harness; the addends differ from level to level
Chains ==
  { << Increment(n0, a) >> : n0 \in 1 .. MaxRepeat, a \in 1 .. MaxAdder }
  \cup
  { << Increment(n0, a), PairedOps(n1, a + MaxAdder) >> :
      n0 \in 1 .. MaxRepeat, n1 \in 1 .. MaxRepeat, a \in 1 .. MaxAdder }
  \cup
  UNION { { << Increment(n0, a), PairedOps(n1, a + MaxAdder),
               PairedOps(n2, a + 2 * MaxAdder) >> :
              n0 \in 1 .. MaxRepeat, n1 \in 1 .. MaxRepeat, a \in 1 .. MaxAdder }
          : n2 \in 1 .. MaxRepeat }

OpStep ==
  /\ pc \in {"ostep", "oend"}
  /\ ~(pc = "oend" /\ cycles >= MaxCycles)
  /\ LET r == Operation_step(g.S, Len(g.S), p) IN
       /\ p' = r.p
       /\ g' = [g EXCEPT !.S = r.S]
       /\ added' = r.added
       /\ IF r.exit
          THEN /\ pc' = "exit"
               /\ out' = Append(out, [text |-> r.cout])
               /\ status' = r.status
               /\ UNCHANGED <<hist, start, total, cycles>>
          ELSE /\ hist' = IF pc = "oend" THEN << r.p >> ELSE Append(hist, r.p)
               /\ start' = IF pc = "oend" THEN p ELSE start
               /\ total' = total + r.added
               /\ pc' = IF r.ret THEN "ostep" ELSE "oend"
               /\ cycles' = IF r.ret THEN cycles ELSE cycles + 1
               /\ UNCHANGED <<out, status>>
  /\ UNCHANGED <<N, L, det, pn, max_pn, pns, untested,
                 probe, res, mono, called, width,
                 heap, pal, maxodd>>

-----------------------------------------------------------------------------
(* One IsBinaryPalindrome instance called with arbitrary arguments          *)

Probes == (0 .. MaxProbe) \cup {2^(width-1) + 1, ULLONG_MAX - 1, ULLONG_MAX}

DetCall ==
  /\ pc = "det"
  /\ \E x \in Probes :
       LET r == IsBinaryPalindrome_call(det, x) IN
         /\ det' = r.det
         /\ res' = r.result
         /\ probe' = x
         /\ mono' = (mono /\ (called => probe <= x))
         /\ called' = TRUE
         /\ maxodd' = IF x % 2 = 1 /\ x > maxodd THEN x ELSE maxodd
  /\ UNCHANGED <<N, L, p, g, pc, pn, max_pn, out, pns, untested, start, hist,
                 width, total, added, cycles,
                 heap, pal, status>>

-----------------------------------------------------------------------------
(* add_commas called once with an arbitrary argument; positions "fmt" and   *)
(* "fmtdone"                                                                *)

CommaInputs == (0 .. MaxComma) \cup {999999, 1000000, 1000001, 1234567}

CommaCall ==
  /\ pc = "fmt"
  /\ \E n \in CommaInputs :
       /\ probe' = n
       /\ res' = add_commas(n)
       /\ called' = TRUE
  /\ pc' = "fmtdone"
  /\ UNCHANGED <<N, L, p, g, det, pn, max_pn, out, pns, untested, start,
                 hist, mono, width, total, added, cycles, heap, pal, maxodd, status>>

-----------------------------------------------------------------------------
(* Attempt2: one Palindromes object, next() called again and again;         *)
(* position "next".  hist holds the values returned that have the current   *)
(* length _n, and p the value returned last.                                *)

\* the integer a digit vector stands for
RECURSIVE VectorValue(_, _)
VectorValue(cur, base) ==
  IF cur = << >> THEN 0
  ELSE cur[1] + base * VectorValue(Tail(cur), base)

PalNext ==
  /\ pc = "next"
  /\ pal.n <= MaxPalLen
  /\ pal' = Palindromes_next(pal)
  /\ p' = VectorValue(pal'.cur, pal'.N)
  /\ hist' = IF pal'.n = pal.n THEN Append(hist, p') ELSE << p' >>
  /\ UNCHANGED <<N, L, g, det, pc, pn, max_pn, out, pns, untested, start,
                 probe, res, mono, called, width, total, added, cycles,
                 heap, maxodd, status>>

-----------------------------------------------------------------------------
(* The two generators of palindromes side by side: the loop of calc_Pn      *)
(* (Attempt4) and a Palindromes object (Attempt2) of the same base; with    *)
(* every call of g.step(p) that returns, next() is called once.             *)

GenStepAndNext ==
  /\ pc = "gstep"
  /\ LET r == Generator_step(g, p) IN
       /\ p' = r.p
       /\ g' = r.g
       /\ added' = r.added
       /\ IF r.exit
          THEN /\ pc' = "exit"
               /\ out' = Append(out, [text |-> r.cout])
               /\ status' = r.status
               /\ UNCHANGED <<hist, total, pal>>
          ELSE /\ hist' = Append(hist, r.p)
               /\ total' = total + r.added
               /\ pc' = IF r.ret THEN "gstep" ELSE "gend"
               /\ pal' = Palindromes_next(pal)
               /\ UNCHANGED <<out, status>>
  /\ UNCHANGED <<N, L, det, pn, max_pn, pns, untested, start,
                 probe, res, mono, called, width, cycles,
                 heap, maxodd>>

-----------------------------------------------------------------------------
(* Specifications *)

InitCommon ==
  /\ added = 0
  /\ cycles = 0
  /\ L = 2
  /\ g = NoGenerator
  /\ det = IsBinaryPalindrome
  /\ pn = 0
  /\ max_pn = 0
  /\ out = << >>
  /\ pns = << >>
  /\ untested = FALSE
  /\ hist = << >>
  /\ probe = 0
  /\ res = FALSE
  /\ mono = TRUE
  /\ called = FALSE
  /\ heap = EmptyHeap
  /\ pal = NoPalindromes
  /\ maxodd = 0
  /\ status = Running

\* the program: main from its first statement
Init ==
  /\ width = Width
  /\ InitCommon
  /\ N = 3
  /\ p = 0
  /\ total = 0
  /\ start = 0
  /\ pc = "main"

Next ==
  MainLoop \/ CalcNewGen \/ CalcStep \/ CalcTest \/ MainReport \/ MainReturn

Spec == Init /\ [][Next]_vars

\* calc_Pn(N) called on its own for a base 3 .. MaxN
InitPn ==
  /\ width = Width
  /\ InitCommon
  /\ N \in 3 .. MaxN
  /\ p = N + 1
  /\ total = N + 1
  /\ start = 0
  /\ pc = "gen"

NextPn == CalcNewGen \/ CalcStep \/ CalcTest

SpecPn == InitPn /\ [][NextPn]_vars

\* the generators of a base 3 .. MaxGenN run to completion, length after length,
\* with either width of Number_t
InitGen ==
  /\ width \in {SmallWidth, Width}
  /\ InitCommon
  /\ N \in 3 .. MaxGenN
  /\ p = N + 1
  /\ total = N + 1
  /\ start = N + 1
  /\ pc = "ggen"

NextGen == GenNew \/ GenStep \/ GenNextLength

SpecGen == InitGen /\ [][NextGen]_vars

\* one operation of the harness, the register starting at 0
InitOps ==
  /\ width = Width
  /\ added = 0
  /\ cycles = 0
  /\ L = 2
  /\ g \in { [done |-> FALSE, S |-> c] : c \in Chains }
  /\ det = IsBinaryPalindrome
  /\ pn = 0
  /\ max_pn = 0
  /\ out = << >>
  /\ pns = << >>
  /\ untested = FALSE
  /\ hist = << >>
  /\ probe = 0
  /\ res = FALSE
  /\ mono = TRUE
  /\ called = FALSE
  /\ heap = EmptyHeap
  /\ pal = NoPalindromes
  /\ maxodd = 0
  /\ status = Running
  /\ N = 3
  /\ p = 0
  /\ start = 0
  /\ total = 0
  /\ pc = "ostep"

NextOps == OpStep

SpecOps == InitOps /\ [][NextOps]_vars

\* main with the narrower Number_t, with which it ends in exit(1), and with
\* the wide one, with which it returns
InitOvf ==
  /\ width \in {SmallWidth, Width}
  /\ InitCommon
  /\ N = 3
  /\ p = 0
  /\ total = 0
  /\ start = 0
  /\ pc = "main"

SpecOvf == InitOvf /\ [][Next]_vars

\* main with the narrower Number_t, or the generators of a base run to
\* completion: between them the runs in which Increment::step,
\* PairedOps::step and Generator::step refuse an addition
InitRefuse == InitOvf \/ InitGen

NextRefuse == Next \/ NextGen

SpecRefuse == InitRefuse /\ [][NextRefuse]_vars

\* one detector instance
InitDet ==
  /\ width = Width
  /\ InitCommon
  /\ N = 3
  /\ p = 0
  /\ total = 0
  /\ start = 0
  /\ pc = "det"

NextDet == DetCall

SpecDet == InitDet /\ [][NextDet]_vars

\* calc_Pn(N) on its own with a narrow or a wide Number_t; a call that has
\* started keeps running (the program has one thread)
InitPnW ==
  /\ width \in {TinyWidth, Width}
  /\ InitCommon
  /\ N \in 3 .. MaxFairN
  /\ p = N + 1
  /\ total = N + 1
  /\ start = 0
  /\ pc = "gen"

SpecPnFair == InitPnW /\ [][NextPn]_vars /\ WF_vars(NextPn)

\* add_commas on its own
InitComma ==
  /\ width = Width
  /\ added = 0
  /\ cycles = 0
  /\ L = 2
  /\ g = NoGenerator
  /\ det = IsBinaryPalindrome
  /\ pn = 0
  /\ max_pn = 0
  /\ out = << >>
  /\ pns = << >>
  /\ untested = FALSE
  /\ hist = << >>
  /\ probe = 0
  /\ res = << >>
  /\ mono = TRUE
  /\ called = FALSE
  /\ heap = EmptyHeap
  /\ pal = NoPalindromes
  /\ maxodd = 0
  /\ status = Running
  /\ N = 3
  /\ p = 0
  /\ total = 0
  /\ start = 0
  /\ pc = "fmt"

NextComma == CommaCall

SpecComma == InitComma /\ [][NextComma]_vars

\* Attempt2: Palindromes p(N) for a base 3 .. MaxGenN
InitPal ==
  /\ width = Width
  /\ added = 0
  /\ cycles = 0
  /\ L = 2
  /\ g = NoGenerator
  /\ det = IsBinaryPalindrome
  /\ pn = 0
  /\ max_pn = 0
  /\ out = << >>
  /\ pns = << >>
  /\ untested = FALSE
  /\ hist = << >>
  /\ probe = 0
  /\ res = FALSE
  /\ mono = TRUE
  /\ called = FALSE
  /\ heap = EmptyHeap
  /\ maxodd = 0
  /\ status = Running
  /\ N \in 3 .. MaxGenN
  /\ pal = Palindromes(N)
  /\ p = N + 1
  /\ total = 0
  /\ start = N + 1
  /\ pc = "next"

NextPal == PalNext

SpecPal == InitPal /\ [][NextPal]_vars

\* Attempt4's generators and Attempt2's Palindromes for a base 3 .. MaxGenN
InitBoth ==
  /\ width \in {SmallWidth, Width}
  /\ added = 0
  /\ cycles = 0
  /\ L = 2
  /\ g = NoGenerator
  /\ det = IsBinaryPalindrome
  /\ pn = 0
  /\ max_pn = 0
  /\ out = << >>
  /\ pns = << >>
  /\ untested = FALSE
  /\ hist = << >>
  /\ probe = 0
  /\ res = FALSE
  /\ mono = TRUE
  /\ called = FALSE
  /\ heap = EmptyHeap
  /\ maxodd = 0
  /\ status = Running
  /\ N \in 3 .. MaxGenN
  /\ pal = Palindromes(N)
  /\ p = N + 1
  /\ total = N + 1
  /\ start = N + 1
  /\ pc = "ggen"

NextBoth == GenNew \/ GenStepAndNext \/ GenNextLength

SpecBoth == InitBoth /\ [][NextBoth]_vars

-----------------------------------------------------------------------------
(* Reference definitions: positional notation and palindromes              *)

\* the digits of x in the given base, least significant first
RECURSIVE Digits(_, _)
Digits(x, base) ==
  IF x = 0 THEN << >> ELSE << x % base >> \o Digits(x \div base, base)

Reverse(s) == [i \in 1 .. Len(s) |-> s[Len(s) + 1 - i]]

\* x, written in the base without leading zeros, reads the same both ways
IsPalindrome(x, base) ==
  /\ x > 0
  /\ Digits(x, base) = Reverse(Digits(x, base))

\* the value of a sequence of digits, most significant first
RECURSIVE ValueOf(_, _)
ValueOf(ds, base) ==
  IF ds = << >> THEN 0
  ELSE ValueOf(SubSeq(ds, 1, Len(ds) - 1), base) * base + ds[Len(ds)]

\* the palindrome of the given length whose leading digits are those of kernel
Mirror(kernel, base, length) ==
  LET kd == Reverse(Digits(kernel, base))
      K  == Len(kd)
  IN ValueOf(kd \o [i \in 1 .. (length - K) |-> kd[length - K + 1 - i]], base)

\* direct digit construction of all the palindromes of a length, ascending
DirectPalindromes(base, length) ==
  LET K     == (length + 1) \div 2
      first == base^(K - 1)
  IN [i \in 1 .. (base^K - first) |-> Mirror(first + i - 1, base, length)]

Range(s) == {s[i] : i \in DOMAIN s}

StrictlyIncreasing(s) == \A i \in 1 .. (Len(s) - 1) : s[i] < s[i + 1]

-----------------------------------------------------------------------------
(* Claims about calc_Pn (SpecPn)                                            *)

\* C1: the value calc_Pn(N) returns is the smallest integer greater than 2N
\* that is a palindrome both in base N and in base 2: it is one, and no
\* smaller integer above 2N is palindromic in both bases.
C1_ReturnsSmallestDoublePalindrome ==
  pc = "ret" =>
    /\ pn > 2 * N
    /\ IsPalindrome(pn, N)
    /\ IsPalindrome(pn, 2)
    /\ \A x \in (2 * N + 1) .. (pn - 1) :
         ~(IsPalindrome(x, N) /\ IsPalindrome(x, 2))

\* C2: for every base N in 3..MaxN the value calc_Pn(N) returns (a) is greater
\* than 2N, (b) is a palindrome in base N and (c) is a palindrome in base 2.
C2_ReturnedValueIsDoublePalindrome ==
  pc = "ret" =>
    /\ pn > 2 * N
    /\ IsPalindrome(pn, N)
    /\ IsPalindrome(pn, 2)

\* calc_Pn(100) has returned, after generators of more than one length
C2_Witness ==
  /\ pc = "ret"
  /\ N = 100
  /\ L >= 3
  /\ pn = p

\* C3: in calc_Pn the register value left by every call of Generator::step,
\* the last call of a generator included, is passed to the detector before
\* the next call of step.
C3_EveryStepResultTested ==
  pc = "step" => ~untested

-----------------------------------------------------------------------------
(* Claims about the generators (SpecGen)                                    *)

\* C4 as stated: the register values produced by the steps of Generator(N,L)
\* are, as a set, the L-digit base-N palindromes greater than the largest
\* palindrome of L-1 digits, and they are visited in increasing order.
C4_StepsProduceExactlyLengthL ==
  pc = "gend" =>
    /\ Range(hist) = Range(DirectPalindromes(N, L))
    /\ StrictlyIncreasing(hist)

\* C4, amended: the register from which Generator(N,L) starts followed by the
\* values produced by all its steps but the last is the ascending list of all
\* L-digit base-N palindromes (no duplicate, no omission); the last step
\* produces N^L + 1, the first palindrome of L+1 digits.
C4_GeneratorEnumeratesLengthL ==
  LET dp == DirectPalindromes(N, L) IN
  /\ pc = "gstep" =>
       /\ Len(hist) < Len(dp)
       /\ << start >> \o hist = SubSeq(dp, 1, Len(hist) + 1)
  /\ pc = "gend" =>
       /\ << start >> \o SubSeq(hist, 1, Len(hist) - 1) = dp
       /\ StrictlyIncreasing(<< start >> \o hist)
       /\ hist[Len(hist)] = N^L + 1
       /\ hist[Len(hist)] = Mirror(N^((L + 2) \div 2 - 1), N, L + 1)

\* a generator with two levels of PairedOps has reported completion
C4_Witness ==
  /\ pc = "gend"
  /\ L >= 5
  /\ N >= 4
  /\ Len(hist) = (N - 1) * N^((L + 1) \div 2 - 1)

-----------------------------------------------------------------------------
(* Claims about main (Spec)                                                 *)

\* a line written by the loop of main: the base and the value
IsReport(line) == DOMAIN line = {"N", "pn"}

\* the lines written by the loop of main, in the order written
Reports == SelectSeq(out, IsReport)

\* C5: calc_Pn(3) = 6643 and calc_Pn(4) = 15; the first value main writes is
\* 6643 for base 3, and 15 (base 4) is never written.
C5_FirstEntries ==
  /\ Len(pns) >= 1 => pns[1] = 6643
  /\ Len(pns) >= 2 => pns[2] = 15
  /\ Len(out) >= 1 => out[1] = [N |-> 3, pn |-> 6643]
  /\ \A i \in DOMAIN Reports : Reports[i].N # 4 /\ Reports[i].pn # 15

\* bases 3 and 4 have both been handled and something was written
C5_Witness ==
  /\ Len(pns) >= 2
  /\ Len(out) >= 1
  /\ N >= 5

\* C6: the values main writes are strictly increasing.
C6_EmittedStrictlyIncreasing ==
  \A i, j \in DOMAIN Reports : i < j => Reports[i].pn < Reports[j].pn

\* three values have been written
C6_Witness ==
  /\ Len(out) >= 3
  /\ out[1].pn < out[2].pn

\* what main must have written after the values ps (of the bases 3, 4, ...)
\* were computed: ps[i] is written iff it exceeds every earlier value (and 0)
RECURSIVE RunningMax(_)
RunningMax(ps) ==
  IF ps = << >> THEN 0
  ELSE LET r == RunningMax(SubSeq(ps, 1, Len(ps) - 1))
       IN IF ps[Len(ps)] > r THEN ps[Len(ps)] ELSE r

RECURSIVE ExpectedOut(_)
ExpectedOut(ps) ==
  IF ps = << >> THEN << >>
  ELSE LET before == SubSeq(ps, 1, Len(ps) - 1)
           last   == ps[Len(ps)]
       IN IF last > RunningMax(before)
          THEN Append(ExpectedOut(before), [N |-> Len(ps) + 2, pn |-> last])
          ELSE ExpectedOut(before)

\* C7: main visits the bases 3, 4, 5, ... in order and writes P(N) iff P(N) is
\* greater than the running maximum (initially 0) of the values computed for
\* the smaller bases; max_pn is that running maximum, replaced by P(N) when
\* P(N) is written and unchanged when it is not.
C7_EmitIffNewMaximum ==
  /\ pc \in {"main", "gen", "step", "test", "ret"} => N = Len(pns) + 3
  /\ pc \in {"done", "end"} => N = Len(pns) + 2
  /\ Reports = ExpectedOut(pns)
  /\ pc # "end" => out = Reports
  /\ pc = "end" => out = Append(Reports, [text |-> ""])
  /\ max_pn = RunningMax(pns)

\* some value was written and a later, smaller one was not
C7_Witness ==
  /\ Len(out) >= 2
  /\ Len(pns) > Len(out) + 30
  /\ pns[Len(pns)] < max_pn
  /\ pc = "main"

\* C8: main stops right after the first written value that is >= tgt_pn:
\* every earlier written value is below tgt_pn, when main is done the last
\* written value is >= tgt_pn, and once such a value is written main is done:
\* no base is examined and no value written any more, main writes its
\* closing empty line and returns, and then nothing more can happen.
C8_StopsAtTarget ==
  /\ [](/\ \A i \in 1 .. (Len(Reports) - 1) : Reports[i].pn < tgt_pn
        /\ pc \in {"done", "end"} =>
             (Len(Reports) >= 1 /\ Reports[Len(Reports)].pn >= tgt_pn)
        /\ (Len(Reports) >= 1 /\ Reports[Len(Reports)].pn >= tgt_pn) =>
             pc \in {"done", "end"}
        /\ pc = "done" =>
             ~ENABLED (MainLoop \/ CalcNewGen \/ CalcStep \/ CalcTest
                         \/ MainReport)
        /\ pc = "end" => ~ENABLED Next)
  /\ [][pc = "done" =>
          /\ pc' = "end"
          /\ N' = N
          /\ pns' = pns
          /\ max_pn' = max_pn
          /\ out' = Append(out, [text |-> ""])]_vars

\* main is done, after values below the target were written
C8_Witness ==
  /\ pc = "done"
  /\ Len(out) >= 2
  /\ out[1].pn < tgt_pn
  /\ out[Len(out)].N = N

-----------------------------------------------------------------------------
(* Claims about IsBinaryPalindrome (SpecDet)                                *)

\* C9: while the arguments given to one IsBinaryPalindrome instance are
\* non-decreasing, each call returns true exactly when the argument, written
\* in binary without leading zeros, reads the same both ways.
C9_CorrectOnNonDecreasingInputs ==
  (called /\ mono) => (res = IsPalindrome(probe, 2))

\* a palindrome of several bits was accepted after the marker had grown
C9_Witness ==
  /\ called
  /\ mono
  /\ res
  /\ probe >= 9
  /\ det.msb >= 8
  /\ IsPalindrome(probe, 2)

\* C9, second half, negated: even when the arguments decrease the result is
\* always that of the reference.  (Violated: a decrease can misclassify.)
C9_CorrectOnAllInputs ==
  called => (res = IsPalindrome(probe, 2))

\* C10: IsBinaryPalindrome returns false for every even argument, whatever
\* the arguments of the earlier calls were.
C10_EvenRejected ==
  (called /\ probe % 2 = 0) => ~res

\* an even argument was rejected by an instance whose marker had grown
C10_Witness ==
  /\ called
  /\ probe % 2 = 0
  /\ probe > 0
  /\ ~res
  /\ det.msb > probe

-----------------------------------------------------------------------------
(* Claims about Increment and PairedOps (SpecOps)                           *)

\* the addends of the calls of the current cycle, in order
Deltas(first, values) ==
  [j \in 1 .. Len(values) |->
     values[j] - (IF j = 1 THEN first ELSE values[j - 1])]

RECURSIVE Repeated(_, _)
Repeated(n, block) == IF n <= 0 THEN << >> ELSE block \o Repeated(n - 1, block)

\* the additions of one complete cycle of the operation S[i], in order:
\* an Increment adds its adder repeat times; a PairedOps makes repeat times
\* [a cycle of its sub-operation, then I], then one more cycle of the
\* sub-operation
RECURSIVE ExpectedAddends(_, _)
ExpectedAddends(S, i) ==
  IF S[i].kind = "Increment"
  THEN [j \in 1 .. S[i].repeat |-> S[i].adder]
  ELSE LET sub == ExpectedAddends(S, i - 1)
       IN Repeated(S[i].repeat, Append(sub, S[i].I)) \o sub

RECURSIVE SumOf(_)
SumOf(q) == IF q = << >> THEN 0 ELSE q[1] + SumOf(Tail(q))

\* C11: an Increment with repeat count n >= 1: each call adds exactly adder,
\* the calls 1..n-1 of a cycle return true, the n-th returns false leaving
\* the counter at 0, and the calls after it form a new cycle of the same kind.
C11_IncrementCycle ==
  Len(g.S) = 1 =>
    LET n == g.S[1].repeat
        a == g.S[1].adder
    IN /\ hist = [j \in 1 .. Len(hist) |-> start + j * a]
       /\ pc = "ostep" => (Len(hist) < n /\ g.S[1].counter = Len(hist))
       /\ pc = "oend" => (Len(hist) = n /\ g.S[1].counter = 0)
       /\ p = cycles * n * a + (IF pc = "oend" THEN 0 ELSE Len(hist) * a)

\* the (n+1)-th call of an Increment with n = 3 was made and returned true
C11_Witness ==
  /\ Len(g.S) = 1
  /\ g.S[1].repeat = 3
  /\ cycles = 1
  /\ pc = "ostep"
  /\ Len(hist) = 1
  /\ p = 4 * g.S[1].adder

\* C12: a PairedOps with repeat count n >= 1 whose sub-operation takes c calls
\* per complete cycle returns false on call number n*(c+1) + c of a cycle and
\* true on every call before it.
C12_PairedOpsCycleLength ==
  Len(g.S) >= 2 =>
    LET n == g.S[Len(g.S)].repeat
        c == Len(ExpectedAddends(g.S, Len(g.S) - 1))
    IN /\ pc = "ostep" => Len(hist) < n * (c + 1) + c
       /\ pc = "oend" => Len(hist) = n * (c + 1) + c
       /\ Len(g.S) = 2 => c = g.S[1].repeat

\* a PairedOps over a PairedOps has completed a cycle
C12_Witness ==
  /\ Len(g.S) = 3
  /\ pc = "oend"
  /\ g.S[3].repeat = 2
  /\ g.S[2].repeat = 3
  /\ g.S[1].repeat = 2
  /\ Len(hist) = 2 * (11 + 1) + 11

\* C13: a cycle of PairedOps(n, S, I) adds, in this order, n times [the
\* additions of a cycle of S, then I], then the additions of one more cycle
\* of S; its net effect is n*(T + I) + T with T the net effect of a cycle of
\* S; when it completes its counter is 0 and on_S is true.
C13_PairedOpsOrder ==
  Len(g.S) >= 2 =>
    LET root == g.S[Len(g.S)]
        exp  == ExpectedAddends(g.S, Len(g.S))
        T    == SumOf(ExpectedAddends(g.S, Len(g.S) - 1))
        d    == Deltas(start, hist)
    IN /\ Len(d) <= Len(exp)
       /\ d = SubSeq(exp, 1, Len(d))
       /\ pc = "oend" =>
            /\ d = exp
            /\ p - start = root.repeat * (T + root.I) + T
            /\ root.counter = 0
            /\ root.on_S

\* the second cycle of a PairedOps has completed
C13_Witness ==
  /\ Len(g.S) >= 2
  /\ pc = "oend"
  /\ cycles = 2
  /\ g.S[Len(g.S)].repeat >= 2
  /\ start > 0

-----------------------------------------------------------------------------
(* Claims about overflow                                                    *)

\* C14 (SpecGen): the register never wraps around: it always equals the sum,
\* computed without a width, of the seed and of all the addends added, it
\* never exceeds ULLONG_MAX, and an addition is refused (exit) only when the
\* register is greater than ULLONG_MAX minus the addend.
C14_RegisterNeverWraps ==
  /\ p = total
  /\ p <= ULLONG_MAX
  /\ pc = "exit" => (added > 0 /\ p > ULLONG_MAX - added)
  /\ pc # "exit" => p = (IF hist = << >> THEN start ELSE hist[Len(hist)])

\* the roll-over addition of Generator(4, 8) was refused at the largest value
C14_Witness ==
  /\ pc = "exit"
  /\ width = Width
  /\ N = 4
  /\ added = 2
  /\ p = ULLONG_MAX
  /\ g.done

\* the operation of the list S that makes the addition of the next call of
\* S[i].step: a PairedOps that is not on its sub-operation and has not used
\* up its repeat count adds _I itself, any other PairedOps calls _S->step
RECURSIVE Acting(_, _)
Acting(S, i) ==
  IF S[i].kind = "Increment" THEN i
  ELSE IF S[i].counter < S[i].repeat /\ ~S[i].on_S THEN i
  ELSE Acting(S, i - 1)

\* the class whose step has refused the addition, in a state at "exit"
RefusedBy ==
  IF g.done THEN "Generator" ELSE g.S[Acting(g.S, Len(g.S))].kind

\* C15 (SpecRefuse): when an addition would overflow, in Increment::step, in
\* PairedOps::step or in Generator::step, the program ends in the error
\* position.  The failing step writes the line "64bit is insufficient" to
\* stdout and gives the status 1 to exit; it leaves the register, the
\* operations and their counters, the detector, the free store and the values
\* returned as they were.  Afterwards nothing can happen: the diagnostic is
\* the last line written, the lines before it are those of smaller bases, and
\* in main no value was returned for the current base.  The diagnostic and
\* the status 1 occur in no other position: a run without overflow has the
\* status 0 once main has returned, and no status before.
C15_OverflowIsTerminal ==
  /\ [](pc = "exit" =>
          /\ ~ENABLED NextRefuse
          /\ status = 1
          /\ Len(out) >= 1
          /\ out[Len(out)] = [text |-> "64bit is insufficient"]
          /\ \A i \in 1 .. (Len(out) - 1) :
               /\ DOMAIN out[i] = {"N", "pn"}
               /\ out[i].N < N
               /\ out[i].pn = pns[out[i].N - 2]
          /\ p > ULLONG_MAX - added
          /\ added = (IF g.done THEN 2
                      ELSE LET op == g.S[Acting(g.S, Len(g.S))] IN
                           IF op.kind = "Increment" THEN op.adder ELSE op.I))
  /\ [](pc # "exit" =>
          /\ status = (IF pc = "end" THEN 0 ELSE Running)
          /\ \A i \in DOMAIN out : out[i] # [text |-> "64bit is insufficient"])
  /\ [][pc' = "exit" =>
          /\ pc \in {"step", "gstep"}
          /\ pc = "step" => Len(pns) = N - 3
          /\ p' = p
          /\ g' = g
          /\ L' = L
          /\ N' = N
          /\ det' = det
          /\ heap' = heap
          /\ pn' = pn
          /\ pns' = pns
          /\ max_pn' = max_pn
          /\ out' = Append(out, [text |-> "64bit is insufficient"])
          /\ status' = 1]_vars

\* the outermost PairedOps of a generator has refused to add its _I: the
\* diagnostic is written and the status is 1
C15_Witness ==
  /\ pc = "exit"
  /\ RefusedBy = "PairedOps"
  /\ added = g.S[Len(g.S)].I
  /\ p > ULLONG_MAX - added
  /\ out = << [text |-> "64bit is insufficient"] >>
  /\ status = 1

\* main has met an overflow in Increment::step after writing two lines: the
\* diagnostic is the third line and the status is 1
C15_MainRefuses ==
  /\ pc = "exit"
  /\ RefusedBy = "Increment"
  /\ Len(out) = 3
  /\ out[2].N < N
  /\ out[3] = [text |-> "64bit is insufficient"]
  /\ status = 1
  /\ p > ULLONG_MAX - added

\* a generator has refused the roll-over addition of 2
C15_GeneratorRefuses ==
  /\ pc = "exit"
  /\ RefusedBy = "Generator"
  /\ added = 2
  /\ p = ULLONG_MAX
  /\ out = << [text |-> "64bit is insufficient"] >>
  /\ status = 1

-----------------------------------------------------------------------------
(* Further claims about the generators (SpecGen)                            *)

\* C16 as stated: for length 2 the generator's operation is a single
\* Increment with repeat count N-3 and adder N+1.
C16_LengthTwoRepeatNMinus3 ==
  (pc \in {"gstep", "gend"} /\ L = 2) =>
    /\ Len(g.S) = 1
    /\ g.S[1].kind = "Increment"
    /\ g.S[1].repeat = N - 3
    /\ g.S[1].adder = N + 1

\* C16, amended: for length 2 the generator's operation is a single Increment
\* with repeat count N-2 and adder N+1: from the register N+1 it makes N-2
\* additions of N+1 and then the roll-over addition of 2.
C16_LengthTwoIsOneIncrement ==
  (pc \in {"gstep", "gend"} /\ L = 2) =>
    /\ Len(g.S) = 1
    /\ g.S[1].kind = "Increment"
    /\ g.S[1].repeat = N - 2
    /\ g.S[1].adder = N + 1
    /\ \A j \in 1 .. Len(hist) :
         hist[j] = IF j <= N - 2 THEN (j + 1) * (N + 1) ELSE (N - 1) * (N + 1) + 2
    /\ pc = "gend" => Len(hist) = N - 1

\* the generator of length 2 in base 5 has completed
C16_Witness ==
  /\ pc = "gend"
  /\ L = 2
  /\ N = 5
  /\ hist = << 12, 18, 24, 26 >>

\* C17: when Generator(N, L) has run to completion the register before its
\* last step was N^L - 1, the largest palindrome of L digits, and the last
\* step added 2, leaving N^L + 1.
C17_RollOver ==
  /\ (pc = "gstep" /\ g.done) => p = N^L - 1
  /\ (pc = "gstep" /\ ~g.done) => p < N^L - 1
  /\ pc = "gend" =>
       /\ Len(hist) >= 2
       /\ hist[Len(hist) - 1] = N^L - 1
       /\ Digits(hist[Len(hist) - 1], N) = [j \in 1 .. L |-> N - 1]
       /\ added = 2
       /\ p = N^L + 1
       /\ Digits(p, N) = [j \in 1 .. (L + 1) |-> IF j \in {1, L + 1} THEN 1 ELSE 0]

\* the generator of length 6 in base 3 has completed
C17_Witness ==
  /\ pc = "gend"
  /\ L = 6
  /\ N = 3
  /\ p = 730

\* the addends of the operations of a generator
TreeAddends(gen) ==
  {gen.S[i].adder : i \in DOMAIN gen.S} \cup {gen.S[i].I : i \in DOMAIN gen.S}

\* C18: every call of Generator::step makes exactly one addition of a
\* positive constant; every call but the last returns true and adds an addend
\* of the operation tree; the last call adds 2 and returns false.
C18_OneAdditionPerStep ==
  pc \in {"gstep", "gend"} =>
    LET d    == Deltas(start, hist)
        tree == TreeAddends(g) \ {0}
    IN /\ \A j \in 1 .. Len(d) : d[j] > 0
       /\ Len(d) >= 1 => d[Len(d)] = added
       /\ pc = "gstep" => \A j \in 1 .. Len(d) : d[j] \in tree
       /\ pc = "gend" =>
            /\ d[Len(d)] = 2
            /\ \A j \in 1 .. (Len(d) - 1) : d[j] \in tree /\ d[j] # 2

\* a generator with three operations has completed
C18_Witness ==
  /\ pc = "gend"
  /\ Len(g.S) = 3
  /\ added = 2
  /\ Len(hist) > 50

\* C19: between calls every operation of the tree has 0 <= counter <= repeat;
\* the counter of an Increment is back at 0 after the call that completes its
\* repeat additions, so it is below repeat between calls.
C19_CounterBounds ==
  /\ \A i \in DOMAIN g.S :
       /\ 0 <= g.S[i].counter
       /\ g.S[i].counter <= g.S[i].repeat
       /\ g.S[i].kind = "Increment" => g.S[i].counter < g.S[i].repeat
  /\ (Len(g.S) >= 2 /\ ~g.S[2].on_S) => g.S[1].counter = 0
  /\ g.done => \A i \in DOMAIN g.S : g.S[i].counter = 0

\* the last PairedOps is in its final cycle of S, the inner ones are at work
C19_Witness ==
  /\ Len(g.S) >= 3
  /\ g.S[Len(g.S)].counter = g.S[Len(g.S)].repeat
  /\ g.S[2].counter = g.S[2].repeat
  /\ g.S[1].counter > 0

-----------------------------------------------------------------------------
(* Further claims about IsBinaryPalindrome (SpecDet)                        *)

\* C20 as stated: from call to call _msb and _mask are both non-decreasing
\* as unsigned integers.
C20_MsbAndMaskNonDecreasing ==
  [][det'.msb >= det.msb /\ det'.mask >= det.mask]_vars

\* C20, amended: from call to call _msb is non-decreasing and _mask is
\* non-increasing as unsigned integers (its lowest bits are cleared as the
\* marker moves up); the mask changes exactly when the marker does.
C20_MsbUpMaskDown ==
  [][/\ det'.msb >= det.msb
     /\ det'.mask <= det.mask
     /\ (det'.msb > det.msb) <=> (det'.mask < det.mask)]_vars

\* the marker has reached the top bit: no mask bit is left
C20_Witness ==
  /\ called
  /\ det.msb = 2^(width - 1)
  /\ det.mask = 0
  /\ probe < det.msb

-----------------------------------------------------------------------------
(* Claims about main and calc_Pn, continued                                 *)

\* C21 as stated: every line main writes carries, with the base N and the
\* value P(N), its sequence index, the 1-based count of the lines written so
\* far.  (A line of the program carries the elapsed time, N, and P(N) in
\* decimal, in base N and in base 2; the record has the fields N and pn.)
C21_EmissionCarriesIndex ==
  \A i \in DOMAIN Reports :
    /\ "index" \in DOMAIN Reports[i]
    /\ Reports[i].index = i

\* the members of the operations of a list, as a constructor leaves them
Fresh(S) == [i \in DOMAIN S |-> [S[i] EXCEPT !.counter = 0, !.on_S = TRUE]]

\* C22: within one calc_Pn(N) there is one register, seeded to N+1 and changed
\* by the additions of the steps only; generators are constructed for the
\* lengths 2, 3, 4, ... in this order, each after the previous one has
\* reported completion, and each starts from the register the previous left.
C22_OneRegisterAscendingLengths ==
  /\ [](/\ pc \in {"gen", "step", "test"} => p = total
        /\ pc = "gen" =>
             /\ g = NoGenerator
             /\ p = IF L = 2 THEN N + 1 ELSE N^(L - 1) + 1
        /\ pc \in {"step", "test"} => Fresh(g.S) = Generator(N, L).S)
  /\ [][/\ pc = "main" /\ pc' = "gen" => p' = N + 1 /\ L' = 2 /\ N' = N
        /\ pc = "gen" /\ pc' = "step" => p' = p /\ L' = L /\ g' = Generator(N, L)
        /\ pc # "main" /\ pc' = "gen" =>
             /\ pc = "step"
             /\ g.done
             /\ L' = L + 1
             /\ p' = p + 2
        /\ pc # "main" /\ L' # L => pc' = "gen"
        /\ pc # "main" /\ p' # p => pc = "step" /\ p' = p + added' /\ added' > 0
       ]_vars

\* the generator of length 5 in base 3 is about to start from 10001 (base 3)
C22_Witness ==
  /\ pc = "step"
  /\ N = 3
  /\ L = 5
  /\ p = 3^4 + 1
  /\ g = Generator(3, 5)

\* C23: every invocation of calc_Pn(N) ends, either by returning a value the
\* detector accepted or in the exit(1) of an overflow check; once ended it
\* takes no further step.
C23_CalcPnEnds ==
  /\ <>(pc \in {"ret", "exit"})
  /\ [](pc = "ret" =>
          /\ pn = p
          /\ pn % 2 = 1
          /\ ComparePairs(pn, det.msb, 1)
          /\ ~ENABLED NextPn)
  /\ [](pc = "exit" =>
          /\ p > ULLONG_MAX - added
          /\ ~ENABLED NextPn)

\* calc_Pn(3) has ended in exit(1) with the narrow Number_t
C23_Witness ==
  /\ pc = "exit"
  /\ width = TinyWidth
  /\ N = 3
  /\ L > 2

\* C24: for a length L = 2k+1 or 2k+2 with k >= 1, Generator(N, L) holds the
\* chain S0 .. Sk: S0 = Increment(N-1, M0) with M0 = N^k for an odd length
\* and N^k + N^(k+1) for an even one; Si = PairedOps(N-1, S(i-1), A(i-1)) for
\* 1 <= i <= k-1, with A0 = N^(k-1) * (N+1) and Ai = A(i-1) / N exactly; the
\* root Sk = PairedOps(N-2, S(k-1), A(k-1)), whose addend is N+1.
C24_ChainStructure ==
  (pc \in {"gstep", "gend"} /\ L >= 3) =>
    LET k  == (L - 1) \div 2
        M0 == IF L % 2 = 1 THEN N^k ELSE N^k + N^(k + 1)
        A0 == N^(k - 1) * (N + 1)
    IN /\ Len(g.S) = k + 1
       /\ g.S[1].kind = "Increment"
       /\ g.S[1].repeat = N - 1
       /\ g.S[1].adder = M0
       /\ \A i \in 1 .. k :
            /\ g.S[i + 1].kind = "PairedOps"
            /\ g.S[i + 1].repeat = IF i = k THEN N - 2 ELSE N - 1
       /\ g.S[2].I = A0
       /\ \A i \in 2 .. k : g.S[i + 1].I * N = g.S[i].I
       /\ g.S[k + 1].I = N + 1

\* the generator of length 7 in base 4: k = 3, addends 64, 80, 20, 5
C24_Witness ==
  /\ pc = "gstep"
  /\ L = 7
  /\ N = 4
  /\ Len(g.S) = 4
  /\ g.S[1].adder = 64
  /\ g.S[2].I = 80
  /\ g.S[3].I = 20
  /\ g.S[4].I = 5

\* C25: calc_Pn starts every base with a new detector (_msb = 1, _mask = all
\* bits above bit 0); nothing of the detector of the previous base is left:
\* during a search the marker is never above the register.
C25_FreshDetectorPerBase ==
  /\ [](pc \in {"gen", "step", "test"} =>
          /\ det.msb <= p
          /\ (pc = "gen" /\ L = 2) => det = [msb |-> 1, mask |-> ULLONG_MAX - 1])
  /\ [][pc = "main" /\ pc' = "gen" =>
          det' = [msb |-> 1, mask |-> ULLONG_MAX - 1]]_vars

\* calc_Pn(4) starts after calc_Pn(3) has returned 6643
C25_Witness ==
  /\ pc = "gen"
  /\ L = 2
  /\ N = 4
  /\ pns = << 6643 >>
  /\ det.msb = 1

\* the objects that exist
Live == DOMAIN heap.sub

\* C26: the Operation objects of a Generator form one chain without sharing
\* or cycle: the vector _S holds every object once (1 object for length 2,
\* k+1 otherwise), every object is the _S of one other object at most, and
\* destroying the generator releases every object exactly once.
C26_ChainOwnedAndReleased ==
  /\ pc \in {"gstep", "gend", "exit"} =>
       /\ Len(heap.list) = Len(g.S)
       /\ Len(heap.list) = IF L = 2 THEN 1 ELSE (L - 1) \div 2 + 1
       /\ \A i, j \in DOMAIN heap.list : heap.list[i] = heap.list[j] => i = j
       /\ Range(heap.list) = Live
       /\ \A i \in DOMAIN heap.list :
            /\ heap.sub[heap.list[i]] = IF i = 1 THEN 0 ELSE heap.list[i - 1]
            /\ (heap.sub[heap.list[i]] = 0) <=> (g.S[i].kind = "Increment")
       /\ \A id \in Live : Cardinality({x \in Live : heap.sub[x] = id}) <= 1
  /\ pc = "ggen" => (Live = {} /\ heap.list = << >>)
  /\ \A i, j \in DOMAIN heap.freed : heap.freed[i] = heap.freed[j] => i = j
  /\ Range(heap.freed) \cap Live = {}
  /\ Range(heap.freed) \cup Live = 1 .. (heap.next - 1)

\* the generators of the lengths 2 .. 5 have been destroyed: 1+2+2+3 objects
C26_Witness ==
  /\ pc = "ggen"
  /\ L = 6
  /\ Len(heap.freed) = 8
  /\ Live = {}

-----------------------------------------------------------------------------
(* Claims about add_commas (SpecComma)                                      *)

\* the decimal digits d from position i on, a comma before every digit that
\* has a multiple of three digits from itself to the end (the first excepted)
RECURSIVE Grouped(_, _)
Grouped(d, i) ==
  IF i > Len(d) THEN << >>
  ELSE (IF i > 1 /\ (Len(d) - i + 1) % 3 = 0 THEN << "," >> ELSE << >>)
       \o << d[i] >> \o Grouped(d, i + 1)

\* C27: add_commas(n) is the decimal digits of n with a comma between the
\* groups of three digits counted from the right: no run of digits without a
\* comma is longer than three.
C27_CommaEveryThreeDigits ==
  pc = "fmtdone" =>
    /\ res = Grouped(DecimalString(probe), 1)
    /\ \A i \in 1 .. (Len(res) - 3) : \E j \in i .. (i + 3) : res[j] = ","

-----------------------------------------------------------------------------
(* Claims about Attempt2's Palindromes (SpecPal)                            *)

\* C28: the calls of next() on a Palindromes object of base N return the
\* palindromes of base N above 2N in increasing order from 22 on, none left
\* out and none twice: the j-th value returned with a length is the j-th
\* palindrome of that length (22 being the first of length 2); the vector
\* returned is a palindrome of digits below N with a leading digit other than
\* 0; the length grows exactly after the palindrome of digits N-1, and the
\* value returned then is 1 0...0 1.
C28_NextEnumeratesPalindromes ==
  /\ [](hist # << >> =>
          LET K == (pal.n + 1) \div 2
              j == Len(hist) + (IF pal.n = 2 THEN 1 ELSE 0)
          IN /\ Len(pal.cur) = pal.n
             /\ pal.cur = Reverse(pal.cur)
             /\ \A i \in DOMAIN pal.cur : pal.cur[i] \in 0 .. (N - 1)
             /\ pal.cur[pal.n] # 0
             /\ p = hist[Len(hist)]
             /\ p > 2 * N
             /\ p = Mirror(N^(K - 1) + j - 1, N, pal.n)
             /\ Len(hist) >= 2 => hist[Len(hist) - 1] < p)
  /\ [][/\ p' > p
        /\ (pal'.n # pal.n) <=> (pal.cur = [i \in 1 .. pal.n |-> N - 1])
        /\ (pal'.n # pal.n) =>
             /\ pal'.n = pal.n + 1
             /\ pal'.cur = [i \in 1 .. (pal.n + 1) |->
                              IF i \in {1, pal.n + 1} THEN 1 ELSE 0]
       ]_vars

\* next() has just returned 10001 in base 4
C28_Witness ==
  /\ pc = "next"
  /\ N = 4
  /\ pal.n = 5
  /\ pal.cur = << 1, 0, 0, 0, 1 >>
  /\ hist = << 257 >>

-----------------------------------------------------------------------------
(* Claims about the register and the detector, continued                    *)

\* C29: within one calc_Pn the register grows with every call of step, by a
\* positive addend, and changes at no other place; so every argument given
\* to the detector is above the one before and the arguments are
\* non-decreasing, as the detector requires.
C29_DetectorInputsIncrease ==
  /\ [](pc = "test" => (mono /\ (called => probe < p)))
  /\ [](pc = "ret" => (mono /\ called /\ probe = p))
  /\ [][/\ (pc = "step" /\ pc' # "exit") =>
             (p' > p /\ p' = p + added' /\ added' > 0)
        /\ pc \in {"gen", "test"} => p' = p
       ]_vars

\* the detector is about to be given P(3) = 6643, after smaller arguments
C29_Witness ==
  /\ pc = "test"
  /\ N = 3
  /\ p = 6643
  /\ called
  /\ probe < p
  /\ det.msb > 1

\* C30: in every state of an IsBinaryPalindrome, _msb has exactly one bit set
\* and _mask has exactly the bits above it set; after a call with an odd
\* argument that is not below any earlier odd argument, _msb is the top bit of
\* the argument: _msb <= p < 2 * _msb.
C30_MarkerAndMask ==
  /\ \E k \in 0 .. (width - 1) : det.msb = 2^k
  /\ det.mask = ULLONG_MAX - (2 * det.msb - 1)
  /\ (called /\ probe % 2 = 1 /\ probe = maxodd) =>
       (det.msb <= probe /\ probe < 2 * det.msb)

\* a call with the top bit set, after smaller arguments
C30_Witness ==
  /\ called
  /\ probe = 2^(width - 1) + 1
  /\ maxodd = probe
  /\ det.msb = 2^(width - 1)
  /\ ~mono

-----------------------------------------------------------------------------
(* Claims about the state and the length of a cycle (SpecGen)               *)

\* C31: when an operation of the tree has reported completion, it and every
\* operation below it are as constructed (counter 0, on_S true); a PairedOps
\* whose counter equals its repeat count has on_S true; when the Generator
\* has reported completion its tree and its _done are as constructed.
C31_CompleteMeansReset ==
  /\ \A i \in DOMAIN g.S :
       /\ ~g.S[i].on_S =>
            \A j \in 1 .. (i - 1) : g.S[j].counter = 0 /\ g.S[j].on_S
       /\ g.S[i].counter = g.S[i].repeat => g.S[i].on_S
  /\ g.done => g.S = Fresh(g.S)
  /\ pc = "gend" => g = Generator(N, L)

\* the generator of length 7 in base 3 has reported completion
C31_Witness ==
  /\ pc = "gend"
  /\ N = 3
  /\ L = 7
  /\ Len(g.S) = 4
  /\ g = Generator(3, 7)

\* the number of calls one cycle of the operation at position i takes
RECURSIVE CycleLength(_, _)
CycleLength(S, i) ==
  IF i = 1 THEN S[1].repeat
  ELSE S[i].repeat * (CycleLength(S, i - 1) + 1) + CycleLength(S, i - 1)

\* the number of calls the operation at position i has had in its cycle
RECURSIVE CallsInCycle(_, _)
CallsInCycle(S, i) ==
  IF i = 1 THEN S[1].counter
  ELSE S[i].counter * (CycleLength(S, i - 1) + 1)
       + (IF S[i].on_S THEN CallsInCycle(S, i - 1) ELSE CycleLength(S, i - 1))

\* C32: Generator(N, L) reports completion on its ((N-1) * N^(ceil(L/2)-1))-th
\* call of step, the number of the palindromes of L digits in base N; a cycle
\* of the operation Si below the root takes N^(i+1) - 1 calls.
C32_CallsToCompletion ==
  /\ pc = "gstep" =>
       /\ \A i \in 1 .. (Len(g.S) - 1) : CycleLength(g.S, i) = N^i - 1
       /\ Len(hist) = IF g.done THEN CycleLength(g.S, Len(g.S))
                      ELSE CallsInCycle(g.S, Len(g.S))
       /\ Len(hist) < (N - 1) * N^((L + 1) \div 2 - 1)
  /\ pc = "gend" =>
       /\ Len(hist) = (N - 1) * N^((L + 1) \div 2 - 1)
       /\ Len(hist) = Len(DirectPalindromes(N, L))

\* the generator of length 6 in base 4 has reported completion on call 48
C32_Witness ==
  /\ pc = "gend"
  /\ N = 4
  /\ L = 6
  /\ Len(hist) = 48

\* C33: the multiplications of the Generator constructor do not wrap on any
\* path calc_Pn can take: when Generator(N, L) is constructed, M0 and A0 as
\* true integers are below the register, so they fit in Number_t and the
\* constructor holds exactly these values; no addend of the tree is 0.
C33_ConstructorDoesNotWrap ==
  pc \in {"gstep", "gend", "exit"} =>
    /\ \A i \in DOMAIN g.S :
         IF g.S[i].kind = "Increment" THEN g.S[i].adder > 0 ELSE g.S[i].I > 0
    /\ L >= 3 =>
         LET k  == (L - 1) \div 2
             M0 == IF L % 2 = 1 THEN N^k ELSE N^k * (N + 1)
             A0 == N^(k - 1) * (N + 1)
         IN /\ M0 < start
            /\ A0 < start
            /\ start <= ULLONG_MAX
            /\ g.S[1].adder = M0
            /\ g.S[2].I = A0

\* the last generator of base 5 the narrow Number_t allows has been built
C33_Witness ==
  /\ pc = "gstep"
  /\ hist = << >>
  /\ width = SmallWidth
  /\ N = 5
  /\ L = 6
  /\ start = 5^5 + 1
  /\ g.S[1].adder = 150
  /\ g.S[2].I = 30

-----------------------------------------------------------------------------
(* Attempt4 against Attempt2 (SpecBoth)                                     *)

\* C34: for every base, the register after each call of Generator::step in
\* the loop of calc_Pn (lengths 2, 3, 4, ..., the value of each roll-over
\* included) is, as an integer, the palindrome the same call of Attempt2's
\* Palindromes::next() returns.
C34_SameSequenceAsAttempt2 ==
  /\ [](/\ p = VectorValue(pal.cur, pal.N)
        /\ pal.N = N
        /\ pal.n = Len(Digits(p, N))
        /\ pc = "gstep" => pal.n = L
        /\ pc = "gend" => pal.n = L + 1)
  /\ [][(pc = "gstep" /\ pc' # "exit") =>
          /\ pal' = Palindromes_next(pal)
          /\ p' = VectorValue(pal'.cur, N)
          /\ hist'[Len(hist')] = VectorValue(pal'.cur, N)]_vars

\* both have reached 1000001 in base 4 after the palindromes of 6 digits
C34_Witness ==
  /\ pc = "gend"
  /\ N = 4
  /\ L = 6
  /\ p = 4^6 + 1
  /\ pal.cur = << 1, 0, 0, 0, 0, 0, 1 >>
  /\ Len(hist) = 48

====
